---- MODULE Spec2Model ----
(***************************************************************************)
(* A model of main.py of mon-erp-pro: the signed session cookie, the       *)
(* get_db bootstrap, the CRUD handlers on customers, products and invoices *)
(* and the invoice totals.                                                  *)
(*                                                                          *)
(* Modelling conventions                                                    *)
(*  - A Python string is a sequence of one-character strings, so that      *)
(*    str.split, f-string formatting and int() are computed, not assumed.  *)
(*  - An Optional value is <<>> (None) or <<v>>.                           *)
(*  - time.time() is a float: the clock is counted in ticks of             *)
(*    1/TicksPerSecond second and int(time.time()) truncates it.           *)
(*  - HMAC-SHA256 is taken to be collision free and unforgeable: its       *)
(*    hexdigest is an injective, colon-free encoding of (key, message).    *)
(*  - A Float column holds an exact rational, kept as a scaled integer.    *)
(***************************************************************************)
EXTENDS Integers, Sequences, FiniteSets, TLC

VARIABLES
    company,        \* table company: set of rows
    users,          \* table users
    customers,      \* table customers
    products,       \* table products
    invoices,       \* table invoices
    invoice_lines,  \* table invoice_lines
    nextId,         \* the serial of each table's primary key
    clock,          \* time.time(), in ticks
    cookie,         \* the browser's session_token cookie: <<>> or <<token>>
    issued,         \* authenticator: the tokens issued, each with its uid and time
    authReq,        \* the cookie handed to get_current_user last, and when
    authResp,       \* and the answer it got
    created,        \* per invoice id: the product prices when create_invoice ran
    pc,             \* concurrent get_db: the position of each request in it
    ledger          \* invoice totals: an invoice's lines, and the totals read of them

vars == <<company, users, customers, products, invoices, invoice_lines, nextId,
          clock, cookie, issued, authReq, authResp, created, pc, ledger>>

tables == <<company, users, customers, products, invoices, invoice_lines>>

-----------------------------------------------------------------------------
(* Python values *)

None == <<>>

Some(v) == <<v>>

Digits == <<"0", "1", "2", "3", "4", "5", "6", "7", "8", "9">>

DigitSet == {Digits[i] : i \in 1..10}

DigitVal(c) == (CHOOSE i \in 1..10 : Digits[i] = c) - 1

RECURSIVE NatToStr(_)
NatToStr(n) == IF n < 10 THEN <<Digits[n + 1]>>
               ELSE NatToStr(n \div 10) \o <<Digits[(n % 10) + 1]>>

\* str(n) of an int, as the f-string of create_session_token formats it
IntToStr(n) == IF n < 0 THEN <<"-">> \o NatToStr(0 - n) ELSE NatToStr(n)

RECURSIVE DigitsToNat(_)
DigitsToNat(s) == IF Len(s) = 0 THEN 0
                  ELSE 10 * DigitsToNat(SubSeq(s, 1, Len(s) - 1)) + DigitVal(s[Len(s)])

AllDigits(s) == Len(s) > 0 /\ \A i \in 1..Len(s) : s[i] \in DigitSet

\* int(s) succeeds on an optional sign followed by decimal digits and raises
\* ValueError on anything else over this alphabet
IsIntStr(s) == IF Len(s) > 0 /\ s[1] \in {"-", "+"} THEN AllDigits(Tail(s)) ELSE AllDigits(s)

StrToInt(s) == IF s[1] = "-" THEN 0 - DigitsToNat(Tail(s))
               ELSE IF s[1] = "+" THEN DigitsToNat(Tail(s))
               ELSE DigitsToNat(s)

\* s.split(":"): the fields between the colons, always at least one
RECURSIVE Split(_)
Split(s) ==
    IF \A i \in 1..Len(s) : s[i] # ":" THEN <<s>>
    ELSE LET k == CHOOSE i \in 1..Len(s) : s[i] = ":" /\ \A j \in 1..(i - 1) : s[j] # ":"
         IN  <<SubSeq(s, 1, k - 1)>> \o Split(SubSeq(s, k + 1, Len(s)))

-----------------------------------------------------------------------------
(* Configuration *)

SECRET_KEY == "k-server"

OTHER_KEY == "k-other"

SESSION_EXPIRE_SECONDS == 60 * 60 * 24 * 7

TicksPerSecond == 2

\* time.time() is clock / TicksPerSecond; int(time.time()) truncates
IntTime(now) == now \div TicksPerSecond

\* hmac.new(key, msg, sha256).hexdigest()
HmacHex(key, msg) == <<key>> \o [i \in 1..Len(msg) |-> IF msg[i] = ":" THEN "|" ELSE msg[i]]

-----------------------------------------------------------------------------
(* Passwords *)

hash_password(password) == <<password, ":monerp_salt">>

verify_password(password, hashed) == hash_password(password) = hashed

-----------------------------------------------------------------------------
(* Session tokens *)

create_session_token(user_id, now) ==
    LET expires_at == IntTime(now) + SESSION_EXPIRE_SECONDS
        payload    == IntToStr(user_id) \o <<":">> \o IntToStr(expires_at)
        signature  == HmacHex(SECRET_KEY, payload)
    IN  payload \o <<":">> \o signature

\* the try block of parse_session_token: what it returns, or that it raised
ParseNoSignatureCheck(token, now) ==
    LET f == Split(token) IN
    IF Len(f) # 3 THEN [raised |-> TRUE, ret |-> None]
    ELSE IF ~IsIntStr(f[2]) THEN [raised |-> TRUE, ret |-> None]
    ELSE IF StrToInt(f[2]) < IntTime(now) THEN [raised |-> FALSE, ret |-> None]
    ELSE IF ~IsIntStr(f[1]) THEN [raised |-> TRUE, ret |-> None]
    ELSE [raised |-> FALSE, ret |-> Some(StrToInt(f[1]))]

ParseExpiresAtBoundary(token, now) ==
    LET f == Split(token) IN
    IF Len(f) # 3 THEN [raised |-> TRUE, ret |-> None]
    ELSE LET payload      == f[1] \o <<":">> \o f[2]
             expected_sig == HmacHex(SECRET_KEY, payload)
         IN  IF f[3] # expected_sig THEN [raised |-> FALSE, ret |-> None]
             ELSE IF ~IsIntStr(f[2]) THEN [raised |-> TRUE, ret |-> None]
             ELSE IF StrToInt(f[2]) <= IntTime(now) THEN [raised |-> FALSE, ret |-> None]
             ELSE IF ~IsIntStr(f[1]) THEN [raised |-> TRUE, ret |-> None]
             ELSE [raised |-> FALSE, ret |-> Some(StrToInt(f[1]))]

ParseTry(token, now) ==
    LET f == Split(token) IN
    IF Len(f) # 3 THEN [raised |-> TRUE, ret |-> None]
    ELSE LET payload      == f[1] \o <<":">> \o f[2]
             expected_sig == HmacHex(SECRET_KEY, payload)
         IN  IF f[3] # expected_sig THEN [raised |-> FALSE, ret |-> None]
             ELSE IF ~IsIntStr(f[2]) THEN [raised |-> TRUE, ret |-> None]
             ELSE IF StrToInt(f[2]) < IntTime(now) THEN [raised |-> FALSE, ret |-> None]
             ELSE IF ~IsIntStr(f[1]) THEN [raised |-> TRUE, ret |-> None]
             ELSE [raised |-> FALSE, ret |-> Some(StrToInt(f[1]))]

\* except Exception: return None
parse_session_token(token, now) ==
    LET r == ParseTry(token, now) IN IF r.raised THEN None ELSE r.ret

\* db.query(User).filter(User.id == user_id).first()
UserById(db_users, user_id) ==
    IF \E u \in db_users : u.id = user_id
    THEN Some(CHOOSE u \in db_users : u.id = user_id)
    ELSE None

GetCurrentUserNoLookup(ck, db_users, now) ==
    IF ck = None \/ ck[1] = <<>> THEN None
    ELSE LET user_id == parse_session_token(ck[1], now) IN
         IF user_id = None \/ user_id[1] = 0 THEN None
         ELSE IF db_users = {} THEN None ELSE Some(CHOOSE u \in db_users : TRUE)

\* ck is request.cookies.get("session_token"): None when the cookie is absent
get_current_user(ck, db_users, now) ==
    IF ck = None \/ ck[1] = <<>> THEN None
    ELSE LET user_id == parse_session_token(ck[1], now) IN
         IF user_id = None \/ user_id[1] = 0 THEN None
         ELSE UserById(db_users, user_id[1])

-----------------------------------------------------------------------------
(* Rows and defaults of the tables *)

\* Company(): the column defaults; payment_term is the one the handlers read
DefaultCompany(id) == [id |-> id, name |-> "Mon Entreprise", payment_term |-> 30]

\* User(username="admin", password_hash=hash_password("admin123"))
AdminUser(id) == [id |-> id, username |-> "admin", password_hash |-> hash_password("admin123")]

NoIds == [company |-> 1, users |-> 1, customers |-> 1, products |-> 1,
          invoices |-> 1, invoice_lines |-> 1]

-----------------------------------------------------------------------------
(* The database a handler sees, and the dependencies of every route *)

DB == [company |-> company, users |-> users, customers |-> customers,
       products |-> products, invoices |-> invoices,
       invoice_lines |-> invoice_lines, nextId |-> nextId]

TablesOf(db) == <<db.company, db.users, db.customers, db.products, db.invoices,
                  db.invoice_lines>>

\* db.query(Model).filter(Model.id == id).first()
ById(rows, id) == IF \E r \in rows : r.id = id
                  THEN Some(CHOOSE r \in rows : r.id = id)
                  ELSE None

\* db.query(Company).first(): the row of lowest id
FirstCompany(db) == CHOOSE c \in db.company : \A d \in db.company : c.id <= d.id

\* db.add(row); db.commit() on a table with a serial primary key
Insert(db, table, row) ==
    [db EXCEPT ![table] = @ \cup {[row EXCEPT !.id = db.nextId[table]]},
               !.nextId[table] = @ + 1]

\* the FOREIGN KEY constraints the tables declare, which the database checks
\* at every flush
ForeignKeysHold(db) ==
    /\ \A i \in db.invoices : \E c \in db.customers : c.id = i.customer_id
    /\ \A l \in db.invoice_lines :
          /\ \E i \in db.invoices : i.id = l.invoice_id
          /\ \E q \in db.products : q.id = l.product_id

\* commit succeeds, or raises IntegrityError and the session is rolled back
CommitOk(db) == ForeignKeysHold(db)

\* the sequential run of get_db up to its yield
get_db(db) ==
    LET d1 == IF Cardinality(db.company) = 0
              THEN Insert(db, "company", DefaultCompany(0)) ELSE db
    IN  IF Cardinality(d1.users) = 0 THEN Insert(d1, "users", AdminUser(0)) ELSE d1

\* a response: the status and the detail, template or redirect target; the body
\* of a 2xx response is not kept
Resp(status, detail) == [status |-> status, detail |-> detail]

AuthRequired == Resp(401, "Authentification requise")

Ok == Resp(200, "ok")

NotFound == Resp(404, "Not Found")

ServerError == Resp(500, "Internal Server Error")

Out(db, resp) == [db |-> db, resp |-> resp]

\* require_user, after get_db: the user, or None for the 401
require_user(ck, db, now) == get_current_user(ck, db.users, now)

-----------------------------------------------------------------------------
(* Invoice totals.  Amounts are kept in 1/10000 of the currency unit, so that  *)
(* quantity * unit_price * (1 - discount/100) * (vat_rate/100) is an integer. *)

Null == -1

\* (x or 0): None and 0 both give 0
Or0(x) == IF x = Null \/ x = 0 THEN 0 ELSE x

NetNoDiscount(line) == line.quantity * line.unit_price * 100 * 100

\* line.quantity * line.unit_price * (1 - (line.discount or 0)/100)
Net(line) == line.quantity * line.unit_price * (100 - Or0(line.discount)) * 100

\* ... * ((line.vat_rate or 0)/100)
Tax(line) == line.quantity * line.unit_price * (100 - Or0(line.discount)) * Or0(line.vat_rate)

\* sum(f(line) for line in lines)
RECURSIVE SumNet(_)
SumNet(lines) == IF lines = {} THEN 0
                 ELSE LET l == CHOOSE x \in lines : TRUE IN Net(l) + SumNet(lines \ {l})

RECURSIVE SumTax(_)
SumTax(lines) == IF lines = {} THEN 0
                 ELSE LET l == CHOOSE x \in lines : TRUE IN Tax(l) + SumTax(lines \ {l})

\* Invoice.lines: the relationship
LinesOf(db, invoice_id) == {l \in db.invoice_lines : l.invoice_id = invoice_id}

total_ht(lines) == SumNet(lines)

total_tax(lines) == SumTax(lines)

total_ttc(lines) == total_ht(lines) + total_tax(lines)

-----------------------------------------------------------------------------
(* The handlers: each maps the database and the request to the database    *)
(* left behind and the response.                                           *)

\* the four pages: a redirect to /login for an anonymous visitor
page(ck, db0, now) ==
    LET db == get_db(db0) IN
    IF get_current_user(ck, db.users, now) = None
    THEN Out(db, Resp(303, "/login")) ELSE Out(db, Resp(200, "dashboard.html"))

get_invoice_details(ck, db0, now, invoice_id) ==
    LET db == get_db(db0) IN
    IF require_user(ck, db, now) = None THEN Out(db, AuthRequired)
    ELSE IF ById(db.invoices, invoice_id) = None THEN Out(db, NotFound)
    ELSE Out(db, Ok)

global_search(ck, db0, now, q) ==
    LET db == get_db(db0) IN
    IF require_user(ck, db, now) = None THEN Out(db, AuthRequired)
    ELSE Out(db, Ok)

generate_pdf(ck, db0, now, invoice_id) ==
    LET db == get_db(db0) IN
    IF require_user(ck, db, now) = None THEN Out(db, AuthRequired)
    ELSE IF ById(db.invoices, invoice_id) = None THEN Out(db, NotFound)
    ELSE Out(db, Ok)

update_company(ck, db0, now, info) ==
    LET db == get_db(db0) IN
    IF require_user(ck, db, now) = None THEN Out(db, AuthRequired)
    ELSE LET c == FirstCompany(db) IN
         Out([db EXCEPT !.company = (@ \ {c}) \cup
                 {[c EXCEPT !.name = info.name, !.payment_term = info.payment_term]}], Ok)

create_customer(ck, db0, now, customer) ==
    LET db == get_db(db0) IN
    IF require_user(ck, db, now) = None THEN Out(db, AuthRequired)
    ELSE Out(Insert(db, "customers", [id |-> 0, name |-> customer.name]), Ok)

update_customer(ck, db0, now, customer_id, customer) ==
    LET db == get_db(db0) IN
    IF require_user(ck, db, now) = None THEN Out(db, AuthRequired)
    ELSE LET db_c == ById(db.customers, customer_id) IN
         IF db_c = None THEN Out(db, NotFound)
         ELSE Out([db EXCEPT !.customers = (@ \ {db_c[1]}) \cup
                      {[db_c[1] EXCEPT !.name = customer.name]}], Ok)

DeleteCustomerNoInvoiceCheck(ck, db0, now, customer_id) ==
    LET db == get_db(db0) IN
    IF require_user(ck, db, now) = None THEN Out(db, AuthRequired)
    ELSE LET db_c == ById(db.customers, customer_id) IN
         IF db_c = None THEN Out(db, NotFound)
         ELSE Out([db EXCEPT !.customers = @ \ {db_c[1]}], Ok)

delete_customer(ck, db0, now, customer_id) ==
    LET db == get_db(db0) IN
    IF require_user(ck, db, now) = None THEN Out(db, AuthRequired)
    ELSE IF Cardinality({i \in db.invoices : i.customer_id = customer_id}) > 0
         THEN Out(db, Resp(400, "Impossible : ce client a des factures."))
    ELSE LET db_c == ById(db.customers, customer_id) IN
         IF db_c = None THEN Out(db, NotFound)
         ELSE LET d == [db EXCEPT !.customers = @ \ {db_c[1]}] IN
              IF CommitOk(d) THEN Out(d, Ok) ELSE Out(db, ServerError)

create_product(ck, db0, now, product) ==
    LET db == get_db(db0) IN
    IF require_user(ck, db, now) = None THEN Out(db, AuthRequired)
    ELSE Out(Insert(db, "products", [id |-> 0, name |-> product.name,
                    price |-> product.price, vat_rate |-> product.vat_rate]), Ok)

update_product(ck, db0, now, product_id, product) ==
    LET db == get_db(db0) IN
    IF require_user(ck, db, now) = None THEN Out(db, AuthRequired)
    ELSE LET db_prod == ById(db.products, product_id) IN
         IF db_prod = None THEN Out(db, NotFound)
         ELSE Out([db EXCEPT !.products = (@ \ {db_prod[1]}) \cup
                      {[db_prod[1] EXCEPT !.name = product.name, !.price = product.price,
                                          !.vat_rate = product.vat_rate]}], Ok)

delete_product(ck, db0, now, product_id) ==
    LET db == get_db(db0) IN
    IF require_user(ck, db, now) = None THEN Out(db, AuthRequired)
    ELSE IF Cardinality({l \in db.invoice_lines : l.product_id = product_id}) > 0
         THEN Out(db, Resp(400, "Impossible : ce produit est utilisé."))
    ELSE LET db_prod == ById(db.products, product_id) IN
         IF db_prod = None THEN Out(db, NotFound)
         ELSE LET d == [db EXCEPT !.products = @ \ {db_prod[1]}] IN
              IF CommitOk(d) THEN Out(d, Ok) ELSE Out(db, ServerError)

\* the loop of create_invoice and update_invoice over invoice_data.lines: a line
\* is added for every product that exists, at the product's current price
RECURSIVE AddLines(_, _, _)
AddLines(db, invoice_id, lines) ==
    IF lines = <<>> THEN db
    ELSE LET line    == Head(lines)
             product == ById(db.products, line.product_id)
         IN  IF product = None THEN AddLines(db, invoice_id, Tail(lines))
             ELSE LET vat == IF line.vat_rate # Null THEN line.vat_rate
                             ELSE product[1].vat_rate
                  IN  AddLines(Insert(db, "invoice_lines",
                                 [id |-> 0, invoice_id |-> invoice_id,
                                  product_id |-> product[1].id,
                                  quantity |-> line.quantity,
                                  unit_price |-> product[1].price,
                                  discount |-> line.discount, vat_rate |-> vat]),
                               invoice_id, Tail(lines))

SecondsPerDay == 86400

\* company.payment_term or 30
PaymentDays(db) == LET t == FirstCompany(db).payment_term IN IF t = 0 THEN 30 ELSE t

create_invoice(ck, db0, now, invoice_data) ==
    LET db == get_db(db0) IN
    IF require_user(ck, db, now) = None THEN Out(db, AuthRequired)
    ELSE LET due == IF invoice_data.due_date # None THEN invoice_data.due_date[1]
                    ELSE IntTime(now) + PaymentDays(db) * SecondsPerDay
             d1  == Insert(db, "invoices", [id |-> 0, due_date |-> due,
                                            customer_id |-> invoice_data.customer_id])
         IN  IF ~CommitOk(d1) THEN Out(db, ServerError)
             ELSE LET d2 == AddLines(d1, db.nextId.invoices, invoice_data.lines) IN
                  IF CommitOk(d2) THEN Out(d2, Ok) ELSE Out(d1, ServerError)

update_invoice(ck, db0, now, invoice_id, invoice_data) ==
    LET db == get_db(db0) IN
    IF require_user(ck, db, now) = None THEN Out(db, AuthRequired)
    ELSE LET db_inv == ById(db.invoices, invoice_id) IN
         IF db_inv = None THEN Out(db, NotFound)
         ELSE LET inv == [db_inv[1] EXCEPT
                             !.customer_id = invoice_data.customer_id,
                             !.due_date = IF invoice_data.due_date # None
                                          THEN invoice_data.due_date[1] ELSE @]
                  d1  == [db EXCEPT !.invoices = (@ \ {db_inv[1]}) \cup {inv},
                                    !.invoice_lines = @ \ LinesOf(db, invoice_id)]
                  d2  == AddLines(d1, invoice_id, invoice_data.lines)
              IN  IF CommitOk(d2) THEN Out(d2, Ok) ELSE Out(db, ServerError)

DeleteInvoiceNoCascade(ck, db0, now, invoice_id) ==
    LET db == get_db(db0) IN
    IF require_user(ck, db, now) = None THEN Out(db, AuthRequired)
    ELSE LET db_inv == ById(db.invoices, invoice_id) IN
         IF db_inv = None THEN Out(db, Resp(404, "Facture introuvable"))
         ELSE Out([db EXCEPT !.invoices = @ \ {db_inv[1]}], Ok)

\* db.delete(db_inv) cascades to the invoice's lines (cascade="all, delete-orphan")
delete_invoice(ck, db0, now, invoice_id) ==
    LET db == get_db(db0) IN
    IF require_user(ck, db, now) = None THEN Out(db, AuthRequired)
    ELSE LET db_inv == ById(db.invoices, invoice_id) IN
         IF db_inv = None THEN Out(db, Resp(404, "Facture introuvable"))
         ELSE Out([db EXCEPT !.invoices = @ \ {db_inv[1]},
                             !.invoice_lines = @ \ LinesOf(db, invoice_id)], Ok)

\* db.query(User).filter(User.username == username).first()
UserByName(db, username) ==
    IF \E u \in db.users : u.username = username
    THEN Some(CHOOSE u \in db.users : u.username = username)
    ELSE None

LoginRejected == Resp(401, "Identifiants incorrects")

LoginOut(db, resp, set_cookie) == [db |-> db, resp |-> resp, set_cookie |-> set_cookie]

LoginNoPasswordCheck(db0, now, username, password) ==
    LET db   == get_db(db0)
        user == UserByName(db, username)
    IN  IF user = None THEN LoginOut(db, LoginRejected, None)
        ELSE LoginOut(db, Resp(303, "/"), Some(create_session_token(user[1].id, now)))

\* set_cookie is the token of response.set_cookie("session_token", token, ...)
login_action(db0, now, username, password) ==
    LET db   == get_db(db0)
        user == UserByName(db, username)
    IN  IF user = None \/ ~verify_password(password, user[1].password_hash)
        THEN LoginOut(db, LoginRejected, None)
        ELSE LoginOut(db, Resp(303, "/"), Some(create_session_token(user[1].id, now)))

login_page(ck, db0, now) ==
    LET db == get_db(db0) IN
    IF get_current_user(ck, db.users, now) # None
    THEN Out(db, Resp(303, "/")) ELSE Out(db, Resp(200, "login.html"))

-----------------------------------------------------------------------------
(* The application: requests handled one at a time, each carrying the      *)
(* browser's cookie.  A response goes to the client and is no part of the  *)
(* state: what the handlers answer is stated of their outputs.  No time    *)
(* passes within a run; expiry is the authenticator's matter below.        *)

\* the serials the customers and products tables hand out in a run
CustomerSerials == {1}

ProductSerials == {1}

MaxInvoices == 2

MaxLineId == 2

Usernames == {"admin", "bob"}

Passwords == {"admin123", "guess"}

\* name stands for name, email, address and siret
CustomerInputs == {[name |-> "a"]}

Prices == {100, 150}

ProductInputs == {[name |-> "p", price |-> x, vat_rate |-> 20] : x \in Prices}

CompanyInputs == {[name |-> "ACME", payment_term |-> 0]}

\* ids a request may name: those the table can hold, and one it never holds
CustomerIds == CustomerSerials \cup {2}

ProductIds == ProductSerials \cup {2}

InvoiceIds == 1..(MaxInvoices + 1)

LineInputs == {[product_id |-> q, quantity |-> 2, discount |-> 10, vat_rate |-> 20] :
                  q \in ProductIds}

LineLists == {<<>>} \cup {<<l>> : l \in LineInputs}

\* invoice_data.due_date is left out by the client: the company's payment term applies
DueDates == {None}

InvoiceInputs == {[customer_id |-> c, due_date |-> d, lines |-> ls] :
                     c \in CustomerIds, d \in DueDates, ls \in LineLists}

NoRequest == [op |-> "none", ck |-> None, now |-> 0]

Init ==
    /\ company = {} /\ users = {} /\ customers = {} /\ products = {}
    /\ invoices = {} /\ invoice_lines = {}
    /\ nextId = NoIds
    /\ clock = 0
    /\ cookie = None
    /\ issued = {}
    /\ authReq = NoRequest
    /\ authResp = [user |-> None]
    /\ created = <<>>
    /\ pc = <<>>
    /\ ledger = <<>>

\* the request is answered: the database it leaves and the response
Answer(out) ==
    /\ company' = out.db.company
    /\ users' = out.db.users
    /\ customers' = out.db.customers
    /\ products' = out.db.products
    /\ invoices' = out.db.invoices
    /\ invoice_lines' = out.db.invoice_lines
    /\ nextId' = out.db.nextId

Page ==
    /\ Answer(page(cookie, DB, clock))
    /\ UNCHANGED <<clock, cookie, issued, authReq, authResp, created, pc, ledger>>

LoginPage ==
    /\ Answer(login_page(cookie, DB, clock))
    /\ UNCHANGED <<clock, cookie, issued, authReq, authResp, created, pc, ledger>>

Login(username, password) ==
    LET out == login_action(DB, clock, username, password) IN
    /\ Answer(out)
    /\ cookie' = IF out.set_cookie # None THEN out.set_cookie ELSE cookie
    /\ UNCHANGED <<clock, issued, authReq, authResp, created, pc, ledger>>

\* logout: response.delete_cookie("session_token"), no database session
Logout ==
    /\ cookie' = None
    /\ UNCHANGED <<tables, nextId, clock, issued, authReq, authResp, created, pc, ledger>>

GetInvoiceDetails(id) ==
    /\ Answer(get_invoice_details(cookie, DB, clock, id))
    /\ UNCHANGED <<clock, cookie, issued, authReq, authResp, created, pc, ledger>>

GlobalSearch ==
    /\ Answer(global_search(cookie, DB, clock, <<"a">>))
    /\ UNCHANGED <<clock, cookie, issued, authReq, authResp, created, pc, ledger>>

GeneratePdf(id) ==
    /\ Answer(generate_pdf(cookie, DB, clock, id))
    /\ UNCHANGED <<clock, cookie, issued, authReq, authResp, created, pc, ledger>>

UpdateCompany(info) ==
    /\ Answer(update_company(cookie, DB, clock, info))
    /\ UNCHANGED <<clock, cookie, issued, authReq, authResp, created, pc, ledger>>

CreateCustomer(c) ==
    /\ nextId.customers \in CustomerSerials
    /\ Answer(create_customer(cookie, DB, clock, c))
    /\ UNCHANGED <<clock, cookie, issued, authReq, authResp, created, pc, ledger>>

UpdateCustomer(id, c) ==
    /\ Answer(update_customer(cookie, DB, clock, id, c))
    /\ UNCHANGED <<clock, cookie, issued, authReq, authResp, created, pc, ledger>>

DeleteCustomer(id) ==
    /\ Answer(delete_customer(cookie, DB, clock, id))
    /\ UNCHANGED <<clock, cookie, issued, authReq, authResp, created, pc, ledger>>

CreateProduct(q) ==
    /\ nextId.products \in ProductSerials
    /\ Answer(create_product(cookie, DB, clock, q))
    /\ UNCHANGED <<clock, cookie, issued, authReq, authResp, created, pc, ledger>>

UpdateProduct(id, q) ==
    /\ Answer(update_product(cookie, DB, clock, id, q))
    /\ UNCHANGED <<clock, cookie, issued, authReq, authResp, created, pc, ledger>>

DeleteProduct(id) ==
    /\ Answer(delete_product(cookie, DB, clock, id))
    /\ UNCHANGED <<clock, cookie, issued, authReq, authResp, created, pc, ledger>>

\* the price of every product, by id
PriceList(db) == [id \in {q.id : q \in db.products} |-> (CHOOSE q \in db.products : q.id = id).price]

CreateInvoice(data) ==
    LET out == create_invoice(cookie, DB, clock, data) IN
    /\ nextId.invoices <= MaxInvoices
    /\ nextId.invoice_lines + Len(data.lines) - 1 <= MaxLineId
    /\ Answer(out)
    /\ created' = IF out.resp = Ok
                  THEN [id \in DOMAIN created \cup {nextId.invoices} |->
                           IF id = nextId.invoices THEN PriceList(out.db) ELSE created[id]]
                  ELSE created
    /\ UNCHANGED <<clock, cookie, issued, authReq, authResp, pc, ledger>>

UpdateInvoice(id, data) ==
    /\ nextId.invoice_lines + Len(data.lines) - 1 <= MaxLineId
    /\ Answer(update_invoice(cookie, DB, clock, id, data))
    /\ UNCHANGED <<clock, cookie, issued, authReq, authResp, created, pc, ledger>>

DeleteInvoice(id) ==
    /\ Answer(delete_invoice(cookie, DB, clock, id))
    /\ UNCHANGED <<clock, cookie, issued, authReq, authResp, created, pc, ledger>>

Next ==
    \/ Page
    \/ LoginPage
    \/ \E u \in Usernames, pw \in Passwords : Login(u, pw)
    \/ Logout
    \/ \E id \in InvoiceIds : GetInvoiceDetails(id)
    \/ GlobalSearch
    \/ \E id \in InvoiceIds : GeneratePdf(id)
    \/ \E info \in CompanyInputs : UpdateCompany(info)
    \/ \E c \in CustomerInputs : CreateCustomer(c)
    \/ \E id \in CustomerIds, c \in CustomerInputs : UpdateCustomer(id, c)
    \/ \E id \in CustomerIds : DeleteCustomer(id)
    \/ \E q \in ProductInputs : CreateProduct(q)
    \/ \E id \in ProductIds, q \in ProductInputs : UpdateProduct(id, q)
    \/ \E id \in ProductIds : DeleteProduct(id)
    \/ \E data \in InvoiceInputs : CreateInvoice(data)
    \/ \E id \in InvoiceIds, data \in InvoiceInputs : UpdateInvoice(id, data)
    \/ \E id \in InvoiceIds : DeleteInvoice(id)

Spec == Init /\ [][Next]_vars

\* the request's cookie authenticates nobody
Anonymous == get_current_user(cookie, get_db(DB).users, clock) = None

\* what each operation that depends on require_user makes of the next request
ProtectedOutcomes ==
         {get_invoice_details(cookie, DB, clock, id) : id \in InvoiceIds}
    \cup {global_search(cookie, DB, clock, <<"a">>)}
    \cup {generate_pdf(cookie, DB, clock, id) : id \in InvoiceIds}
    \cup {update_company(cookie, DB, clock, info) : info \in CompanyInputs}
    \cup {create_customer(cookie, DB, clock, c) : c \in CustomerInputs}
    \cup {update_customer(cookie, DB, clock, id, c) : id \in CustomerIds, c \in CustomerInputs}
    \cup {delete_customer(cookie, DB, clock, id) : id \in CustomerIds}
    \cup {create_product(cookie, DB, clock, q) : q \in ProductInputs}
    \cup {update_product(cookie, DB, clock, id, q) : id \in ProductIds, q \in ProductInputs}
    \cup {delete_product(cookie, DB, clock, id) : id \in ProductIds}
    \cup {create_invoice(cookie, DB, clock, data) : data \in InvoiceInputs}
    \cup {update_invoice(cookie, DB, clock, id, data) : id \in InvoiceIds, data \in InvoiceInputs}
    \cup {delete_invoice(cookie, DB, clock, id) : id \in InvoiceIds}

\* C1: a protected operation reached by an anonymous request answers 401
\* "authentication required" and leaves every table as it found it, in whatever
\* state the request arrives, the empty database included.
C1_AnonymousLeavesTables ==
    Anonymous => \A out \in ProtectedOutcomes :
                    out.resp = AuthRequired /\ TablesOf(out.db) = tables

\* C5: every line of every invoice carries the price its product had when
\* create_invoice created the invoice, whatever update_product and
\* update_invoice have done since.
C5_PriceAtCreation ==
    \A i \in invoices : \A l \in LinesOf(DB, i.id) :
        l.product_id \in DOMAIN created[i.id] => l.unit_price = created[i.id][l.product_id]

InvoiceIdsOf(db) == {i.id : i \in db.invoices}

\* C7: every stored line belongs to an invoice that exists; a delete_invoice that
\* succeeds leaves no line of that invoice; delete_invoice and update_invoice
\* leave the lines of every other invoice as they were, and update_invoice keeps
\* none of the invoice's old lines.
C7_InvoiceOwnsLines ==
    /\ \A l \in invoice_lines : l.invoice_id \in InvoiceIdsOf(DB)
    /\ \A id \in InvoiceIds :
          LET out == delete_invoice(cookie, DB, clock, id) IN
          out.resp = Ok =>
              /\ id \notin InvoiceIdsOf(out.db)
              /\ \A l \in out.db.invoice_lines : l.invoice_id # id
              /\ \A l \in invoice_lines : l.invoice_id # id => l \in out.db.invoice_lines
    /\ \A id \in InvoiceIds, data \in InvoiceInputs :
          LET out == update_invoice(cookie, DB, clock, id, data) IN
          out.resp = Ok =>
              /\ \A l \in invoice_lines : l.invoice_id = id => l \notin out.db.invoice_lines
              /\ \A l \in invoice_lines : l.invoice_id # id => l \in out.db.invoice_lines
              /\ \A l \in out.db.invoice_lines : l.invoice_id # id => l \in invoice_lines

\* C7 witness: an invoice and its line have been deleted, and the line of
\* another invoice is still stored
C7_Witness ==
    /\ \E id \in 1..(nextId.invoices - 1) : id \notin InvoiceIdsOf(DB)
    /\ nextId.invoice_lines - 1 > Cardinality(invoice_lines)
    /\ invoice_lines # {}

\* C8: login_action sets the session_token cookie, to a token for the user's
\* id, only when the username names a user and the password matches that user's
\* stored hash; otherwise it answers the one 401 "Identifiants incorrects",
\* whether the username is unknown or the password wrong, and sets no cookie.
C8_LoginOnlyWithCredentials ==
    \A u \in Usernames, pw \in Passwords :
        LET out   == login_action(DB, clock, u, pw)
            match == {usr \in out.db.users :
                         usr.username = u /\ usr.password_hash = hash_password(pw)}
        IN  IF match # {}
            THEN /\ out.resp.status = 303
                 /\ out.set_cookie # None
                 /\ \E usr \in match : parse_session_token(out.set_cookie[1], clock) = Some(usr.id)
            ELSE out.resp = LoginRejected /\ out.set_cookie = None

\* C8 witness: a login has set the cookie to a token for the admin's id
C8_Witness ==
    /\ cookie # None
    /\ \E usr \in users : usr.username = "admin"
                          /\ parse_session_token(cookie[1], clock) = Some(usr.id)

\* C10: every invoice names an existing customer and every invoice line an
\* existing product; delete_customer on a customer that has invoices and
\* delete_product on a product that a line uses answer 400 and change nothing.
C10_NoDanglingReference ==
    /\ \A i \in invoices : \E c \in customers : c.id = i.customer_id
    /\ \A l \in invoice_lines : \E q \in products : q.id = l.product_id
    /\ ~Anonymous =>
          /\ \A id \in CustomerIds :
                (\E i \in invoices : i.customer_id = id) =>
                    LET out == delete_customer(cookie, DB, clock, id) IN
                    out.resp.status = 400 /\ out.db = DB
          /\ \A id \in ProductIds :
                (\E l \in invoice_lines : l.product_id = id) =>
                    LET out == delete_product(cookie, DB, clock, id) IN
                    out.resp.status = 400 /\ out.db = DB

\* C10 witness: an authenticated client, a customer with an invoice and a
\* product on one of its lines, after an invoice line has been replaced
C10_Witness ==
    /\ ~Anonymous
    /\ \E i \in invoices : \E c \in customers : c.id = i.customer_id
    /\ \E l \in invoice_lines : \E q \in products : q.id = l.product_id
    /\ nextId.invoice_lines - 1 > Cardinality(invoice_lines)

-----------------------------------------------------------------------------
(* The authenticator on its own: tokens issued for any user id, the clock   *)
(* advancing, and cookies of any shape handed to get_current_user.          *)

MaxIssued == 1

UserIds == {0, 1, 2}

\* the clock values looked at: the start of a second, one tick into it and the
\* start of the next second, now and one token lifetime later
ClockValues == {p * SESSION_EXPIRE_SECONDS * TicksPerSecond + k :
                   p \in 0..1, k \in {0, 1, TicksPerSecond}}

IssuedTokens == {r.token : r \in issued}

Join3(a, b, c) == a \o <<":">> \o b \o <<":">> \o c

\* what a client holding the issued token tok can make of it without the key
Forgeries(tok) ==
    LET f   == Split(tok)
        exp == StrToInt(f[2])
    IN    {Join3(IntToStr(u), f[2], f[3]) : u \in UserIds}
     \cup {Join3(f[1], IntToStr(exp + d), f[3]) : d \in {1, SESSION_EXPIRE_SECONDS}}
     \cup {Join3(f[1], f[2], SubSeq(f[3], 1, Len(f[3]) - 1) \o <<"x">>)}
     \cup {Join3(f[1], f[2], Split(t2)[3]) : t2 \in IssuedTokens}
     \cup {Join3(f[1], f[2], HmacHex(OTHER_KEY, f[1] \o <<":">> \o f[2]))}
     \cup {Join3(<<"x">>, f[2], f[3]), Join3(f[1], <<"x">>, f[3])}
     \cup {f[1] \o <<":">> \o f[2], tok \o <<":", "0">>, f[3]}

\* and what a client holding no token can make
BlindForgeries ==
    LET exp == IntToStr(2 * SESSION_EXPIRE_SECONDS) IN
          {Join3(IntToStr(u), exp, HmacHex(OTHER_KEY, IntToStr(u) \o <<":">> \o exp)) : u \in UserIds}
     \cup {Join3(<<"1">>, exp, <<"0">>), Join3(<<"x">>, <<"y">>, HmacHex(OTHER_KEY, <<"x", ":", "y">>))}
     \cup {<<>>, <<":">>, <<"1", ":", "2">>}

ForgedTokens == (BlindForgeries \cup UNION {Forgeries(t) : t \in IssuedTokens}) \ IssuedTokens

InitAuth ==
    /\ company = {DefaultCompany(1)}
    /\ users = {AdminUser(1)}
    /\ customers = {} /\ products = {} /\ invoices = {} /\ invoice_lines = {}
    /\ nextId = [NoIds EXCEPT !.company = 2, !.users = 2]
    /\ clock = 0
    /\ cookie = None
    /\ issued = {}
    /\ authReq = NoRequest
    /\ authResp = [user |-> None]
    /\ created = <<>>
    /\ pc = <<>>
    /\ ledger = <<>>

\* create_session_token(uid) is called at the current time
IssueToken(uid) ==
    /\ Cardinality(issued) < MaxIssued
    /\ issued' = issued \cup {[token |-> create_session_token(uid, clock), uid |-> uid, t |-> clock]}
    /\ UNCHANGED <<tables, nextId, clock, cookie, authReq, authResp, created, pc, ledger>>

\* time passes; the request answered before is over
AdvanceClock ==
    /\ \E c \in ClockValues : c > clock /\ clock' = c
    /\ authReq' = NoRequest
    /\ authResp' = [user |-> None]
    /\ UNCHANGED <<tables, nextId, cookie, issued, created, pc, ledger>>

\* get_current_user is called on a request carrying the cookie ck
Authenticate(ck) ==
    /\ authReq' = [op |-> "authenticate", ck |-> ck, now |-> clock]
    /\ authResp' = [user |-> get_current_user(ck, users, clock)]
    /\ UNCHANGED <<tables, nextId, clock, cookie, issued, created, pc, ledger>>

NextAuth ==
    \/ \E uid \in UserIds : IssueToken(uid)
    \/ AdvanceClock
    \/ \E ck \in {None} \cup {Some(t) : t \in IssuedTokens \cup ForgedTokens} : Authenticate(ck)

SpecAuth == InitAuth /\ [][NextAuth]_vars

\* the token of issue record r is within its lifetime at time now, in whole seconds
Live(r, now) == IntTime(now) <= IntTime(r.t) + SESSION_EXPIRE_SECONDS

\* C2 (as amended): a token issued for uid at time t parses back to uid at every
\* clock value whose whole second is at most that of t plus 7 days, and is
\* rejected at every later clock value; once rejected for expiry it is never
\* accepted again as the clock advances.
C2_RoundTripWholeSeconds ==
    /\ [](\A r \in issued :
            parse_session_token(r.token, clock) = IF Live(r, clock) THEN Some(r.uid) ELSE None)
    /\ [][\A r \in issued :
            parse_session_token(r.token, clock) = None
                => parse_session_token(r.token, clock') = None]_vars

\* C2 witness: a token is still accepted although more than 7 days of ticks have
\* passed since it was issued
C2_Witness ==
    \E r \in issued :
        /\ clock > r.t + SESSION_EXPIRE_SECONDS * TicksPerSecond
        /\ parse_session_token(r.token, clock) = Some(r.uid)

\* C2 as stated: accepted at t <= now <= t + 7 days and rejected at every
\* now > t + 7 days
C2_Original ==
    \A r \in issued :
        /\ clock <= r.t + SESSION_EXPIRE_SECONDS * TicksPerSecond
              => parse_session_token(r.token, clock) = Some(r.uid)
        /\ clock > r.t + SESSION_EXPIRE_SECONDS * TicksPerSecond
              => parse_session_token(r.token, clock) = None

\* C3: a token that create_session_token did not produce under SECRET_KEY (a
\* changed user id, expiry or signature field, a signature under another key,
\* not three fields) is rejected with None at any clock value, also where the
\* body of parse_session_token raises.
C3_ForgedRejected ==
    \A tok \in ForgedTokens : parse_session_token(tok, clock) = None

\* C3 witness: a three-field, unexpired token for an existing user id, signed
\* under another key, was presented and rejected
C3_Witness ==
    /\ authReq.op = "authenticate"
    /\ authReq.ck # None
    /\ authReq.ck[1] \in ForgedTokens
    /\ ParseNoSignatureCheck(authReq.ck[1], authReq.now).ret = Some(1)
    /\ authResp.user = None

\* the issue records that make the cookie ck a valid token at time now
ValidFor(ck, now) == {r \in issued : ck = Some(r.token) /\ Live(r, now)}

\* C4: get_current_user answers None when the cookie is absent, when the token
\* is malformed, forged or expired, and when its user id names no row of users;
\* it answers a user only for a valid token, and then the user with that id.
C4_AnonymousOrIdentity ==
    authReq.op = "authenticate" =>
        LET valid == ValidFor(authReq.ck, authReq.now) IN
        /\ valid = {} => authResp.user = None
        /\ (\A r \in valid : \A u \in users : u.id # r.uid) => authResp.user = None
        /\ authResp.user # None =>
              /\ authResp.user[1] \in users
              /\ \E r \in valid : authResp.user[1].id = r.uid

\* C4 witness: a valid token whose user id names no user was answered None
C4_Witness ==
    /\ authReq.op = "authenticate"
    /\ \E r \in ValidFor(authReq.ck, authReq.now) : r.uid = 2
    /\ authResp.user = None

-----------------------------------------------------------------------------
(* The invoice totals on their own: an invoice's line list of any content,  *)
(* null discounts and VAT rates included, and the three totals read.        *)

MaxLedgerLines == 2

Quantities == {1, 2}

Discounts == {Null, 0, 10}

VatRates == {Null, 20}

InitLedger ==
    /\ company = {} /\ users = {} /\ customers = {} /\ products = {}
    /\ invoices = {} /\ invoice_lines = {}
    /\ nextId = NoIds
    /\ clock = 0
    /\ cookie = None
    /\ issued = {}
    /\ authReq = NoRequest
    /\ authResp = [user |-> None]
    /\ created = <<>>
    /\ pc = <<>>
    /\ ledger = [lines |-> {}, read |-> None]

\* a line joins the invoice; what was read before says nothing of the new list
LedgerAddLine(q, price, d, v) ==
    /\ Cardinality(ledger.lines) < MaxLedgerLines
    /\ ledger' = [lines |-> ledger.lines \cup
                     {[id |-> Cardinality(ledger.lines) + 1, invoice_id |-> 1, product_id |-> 1,
                       quantity |-> q, unit_price |-> price, discount |-> d, vat_rate |-> v]},
                  read |-> None]
    /\ UNCHANGED <<tables, nextId, clock, cookie, issued, authReq, authResp, created, pc>>

\* the three properties are read
LedgerRead ==
    /\ ledger' = [ledger EXCEPT !.read = Some([total_ht  |-> total_ht(ledger.lines),
                                               total_tax |-> total_tax(ledger.lines),
                                               total_ttc |-> total_ttc(ledger.lines)])]
    /\ UNCHANGED <<tables, nextId, clock, cookie, issued, authReq, authResp, created, pc>>

NextLedger ==
    \/ \E q \in Quantities, price \in Prices, d \in Discounts, v \in VatRates :
          LedgerAddLine(q, price, d, v)
    \/ LedgerRead

SpecLedger == InitLedger /\ [][NextLedger]_vars

\* the line of the list with the given id
LedgerLine(k) == CHOOSE l \in ledger.lines : l.id = k

\* the amounts the specification gives for one line, in 1/10000: an absent
\* discount or VAT rate counts as 0
ExpectedNet(l) ==
    l.quantity * l.unit_price * 100 * (100 - (IF l.discount = Null THEN 0 ELSE l.discount))

ExpectedTax(l) ==
    (ExpectedNet(l) \div 100) * (IF l.vat_rate = Null THEN 0 ELSE l.vat_rate)

RECURSIVE ExpectedHt(_)
ExpectedHt(n) == IF n = 0 THEN 0 ELSE ExpectedHt(n - 1) + ExpectedNet(LedgerLine(n))

RECURSIVE ExpectedVat(_)
ExpectedVat(n) == IF n = 0 THEN 0 ELSE ExpectedVat(n - 1) + ExpectedTax(LedgerLine(n))

\* C6: total_ht is the sum over the lines of quantity * unit_price *
\* (1 - discount/100), total_tax the sum of that amount times vat_rate/100 and
\* total_ttc their sum, an absent discount or VAT rate counting as 0; what is
\* read is computed from the lines stored at the read.
C6_TotalsMatchLines ==
    ledger.read # None =>
        LET n == Cardinality(ledger.lines)
            t == ledger.read[1]
        IN  /\ t.total_ht = ExpectedHt(n)
            /\ t.total_tax = ExpectedVat(n)
            /\ t.total_ttc = ExpectedHt(n) + ExpectedVat(n)

\* C6 witness: the totals were read of two lines, one of 2 x 100 at 10 %
\* discount and 20 % VAT, one with neither discount nor VAT rate: 180 + 150 net
\* and 36 tax
C6_Witness ==
    /\ ledger.read # None
    /\ \E l \in ledger.lines : l.quantity = 2 /\ l.unit_price = 100
                               /\ l.discount = 10 /\ l.vat_rate = 20
    /\ \E l \in ledger.lines : l.quantity = 1 /\ l.unit_price = 150
                               /\ l.discount = Null /\ l.vat_rate = Null
    /\ ledger.read[1].total_ht = 330 * 10000
    /\ ledger.read[1].total_tax = 36 * 10000
    /\ ledger.read[1].total_ttc = 366 * 10000

-----------------------------------------------------------------------------
(* get_db under concurrent requests: each request runs the count queries   *)
(* and the inserts of get_db as steps of its own, interleaved with the     *)
(* steps of the others (the handlers are run on a thread pool).            *)

NumRequests == 3

Requests == 1..NumRequests

InitConc ==
    /\ company = {} /\ users = {} /\ customers = {} /\ products = {}
    /\ invoices = {} /\ invoice_lines = {}
    /\ nextId = NoIds
    /\ clock = 0
    /\ cookie = None
    /\ issued = {}
    /\ authReq = NoRequest
    /\ authResp = [user |-> None]
    /\ created = <<>>
    /\ pc = [r \in Requests |-> "count_company"]
    /\ ledger = <<>>

SetDb(db) ==
    /\ company' = db.company
    /\ users' = db.users
    /\ nextId' = db.nextId
    /\ UNCHANGED <<customers, products, invoices, invoice_lines>>

ConcFrame == UNCHANGED <<clock, cookie, issued, authReq, authResp, created, ledger>>

\* if db.query(Company).count() == 0
CountCompany(r) ==
    /\ pc[r] = "count_company"
    /\ pc' = [pc EXCEPT ![r] = IF Cardinality(company) = 0 THEN "add_company" ELSE "count_users"]
    /\ UNCHANGED <<tables, nextId>>
    /\ ConcFrame

\* db.add(Company()); db.commit()
AddCompany(r) ==
    /\ pc[r] = "add_company"
    /\ SetDb(Insert(DB, "company", DefaultCompany(0)))
    /\ pc' = [pc EXCEPT ![r] = "count_users"]
    /\ ConcFrame

\* if db.query(User).count() == 0
CountUsers(r) ==
    /\ pc[r] = "count_users"
    /\ pc' = [pc EXCEPT ![r] = IF Cardinality(users) = 0 THEN "add_user" ELSE "yield"]
    /\ UNCHANGED <<tables, nextId>>
    /\ ConcFrame

\* db.add(admin); db.commit(): username is unique, so the commit of a second
\* "admin" raises IntegrityError and the request ends in the finally clause
AddUser(r) ==
    /\ pc[r] = "add_user"
    /\ IF \E u \in users : u.username = "admin"
       THEN /\ pc' = [pc EXCEPT ![r] = "closed"]
            /\ UNCHANGED <<tables, nextId>>
       ELSE /\ SetDb(Insert(DB, "users", AdminUser(0)))
            /\ pc' = [pc EXCEPT ![r] = "yield"]
    /\ ConcFrame

\* yield db ... finally: db.close()
Close(r) ==
    /\ pc[r] = "yield"
    /\ pc' = [pc EXCEPT ![r] = "closed"]
    /\ UNCHANGED <<tables, nextId>>
    /\ ConcFrame

NextConc ==
    \E r \in Requests :
        \/ CountCompany(r)
        \/ AddCompany(r)
        \/ CountUsers(r)
        \/ AddUser(r)
        \/ Close(r)

SpecConc == InitConc /\ [][NextConc]_vars

\* C9: whatever the interleaving of the count and insert steps of concurrent
\* requests, the company table holds at most one row and the users table at
\* most one user named "admin".
C9_BootstrapOnce ==
    /\ Cardinality(company) <= 1
    /\ Cardinality({u \in users : u.username = "admin"}) <= 1

====
